---- MODULE Spec2Model ----
(***************************************************************************)
(* Model of the medical-record audit service of src/main.py: the in-memory *)
(* job store `jobs`, the two HTTP endpoints that touch it (POST /procesar, *)
(* GET /estado/{job_id}) and the background job procesar_drive_job, one    *)
(* task per request, whose steps interleave freely with the other tasks    *)
(* and with the endpoints (sync handlers and sync background tasks run in  *)
(* the server's thread pool).                                              *)
(*                                                                         *)
(* The collaborators (Drive API, LLM API, PDF libraries, the temporary     *)
(* directory) are the environment: every call to one of them either        *)
(* returns a value drawn from a small set or raises an exception whose     *)
(* str() is drawn from Msgs.                                               *)
(*                                                                         *)
(* Granularity: one action per external call, holding the call, its        *)
(* outcome and the local statements that follow it, and one action per     *)
(* write of the job store where several follow one another (582-583,       *)
(* 591-592, 599-600, 665-676, 679-681): GET /estado can be served between  *)
(* any two of them.  What a call leaves in the temporary directory when it *)
(* raises half way is part of its action.                                  *)
(*                                                                         *)
(* The functions whose contract stands on its own (pdf_has_meaningful_text,*)
(* pdf_to_images, build_html_report, and procesar_pdf of the standalone    *)
(* script src/procesarPdfs.py) are also run outside any job, under SpecLib:*)
(* the variable `unit` holds the call, its arguments and what it returns.  *)
(***************************************************************************)
EXTENDS Integers, Sequences, FiniteSets, TLC

\* ------------------------------------------------------------------ bounds
\* longest folder listing drive_list_pdfs returns
MaxDocs == 2
\* most pages a rasterized PDF has
MaxPages == 2
\* most blocks of a text given to the heuristic on its own
MaxBlocks == 2
\* longest string injected into the HTML report
MaxStr == 2

\* ------------------------------------------------------------ input domains
\* the values uuid.uuid4() can give (main.py:689)
JobIds == {"j1", "j2"}
\* the identifiers a client can ask GET /estado for: one that POST /procesar
\* can issue and one never issued
AskIds == {"j1", "zz"}
\* request.folder_id
Folders == {"F1"}
\* str(e) of an exception one of the pipeline's calls raises; "" is
\* str(Exception()), the message of an exception built with no argument
Msgs == {"", "boom"}
\* str(e) of the OSError shutil.rmtree raises out of TemporaryDirectory.__exit__
CleanupMsgs == {"rmtree", "busy"}
\* the files of the Drive folders
FileIds == 1 .. MaxDocs
\* len(convert_from_path(...)) for a PDF of the folder: no page, one page,
\* the most pages
PageCounts == {0, 1, MaxPages}
\* the "name" Drive gives for a file: stem and extension ("1.pdf", "2.pdf")
NameOf(f) == [stem |-> ToString(f), ext |-> ".pdf"]
\* the entry files().list gives for a file (fields id, name)
Entry(f) == [id |-> f, name |-> NameOf(f)]

\* what files().list can return for a folder that holds the files 1 .. n,
\* for every n up to most: the entries by ascending or by descending id
ListingsUpTo(most) ==
    UNION { { [k \in 1 .. n |-> Entry(k)], [k \in 1 .. n |-> Entry(n + 1 - k)] } :
            n \in 0 .. most }

\* the listings of the folders of at most MaxDocs files
Listings == ListingsUpTo(MaxDocs)

\* names the files of one folder can have.  The listing selects by MIME type
\* (main.py:96), so that the extension is free, a Drive folder may hold
\* several files of one name, and a file may have the name the job gives its
\* own report in the temporary directory.
Names ==
    { [stem |-> "a", ext |-> ".pdf"], [stem |-> "a", ext |-> ".PDF"],
      [stem |-> "b", ext |-> ".pdf"], [stem |-> "informe", ext |-> ".pdf"] }

\* what files().list can return for a folder whose files have these names:
\* up to MaxDocs entries, the k-th being file k
NamedListings ==
    UNION { { [k \in 1 .. n |-> [id |-> k, name |-> nm[k]]] : nm \in [1 .. n -> Names] } :
            n \in 0 .. MaxDocs }

\* os.path.splitext(name)
splitext(name) == <<name.stem, name.ext>>

\* f"{base_name}_{str(i).zfill(5)}.jpg" (main.py:196)
fname(base_name, i) == [base |-> base_name, page |-> i]

\* a directory is a function from the names of its files to their contents;
\* the content of a PDF is the Drive file it was downloaded from and the
\* content of an image is the document and the page it shows
EmptyDir == <<>>

\* the content of a file that was opened for writing by a call that raised
\* before it was done writing f: what was written until then, nothing when the
\* first write failed
Unfinished(f) == [unfinished |-> f]

\* os.path.join(tmpdir, "informe.pdf") (main.py:648)
pdf_path == [stem |-> "informe", ext |-> ".pdf"]

\* the content of the PDF report c.save() writes (main.py:523)
ReportPdf == [report |-> "informe"]

\* the temporary directory where there is none: before
\* tempfile.TemporaryDirectory() and after its removal.  A directory that is
\* there has its files (root) and, once os.makedirs has made it (imgdir), its
\* img subdirectory with the files of that (img)
NoDir == [there |-> FALSE, root |-> EmptyDir, imgdir |-> FALSE, img |-> EmptyDir]

\* the files of directory dir whose names are in S
Restrict(dir, S) == [f \in S |-> dir[f]]

\* what a removal that failed leaves of the directory t: the files R of it
\* and, if sub, the img subdirectory with the files I of that.  shutil.rmtree
\* (under TemporaryDirectory.__exit__) takes the entries of a directory as
\* os.scandir gives them, a subdirectory's entries and then the subdirectory
\* when it comes to it, and raises at the entry it cannot remove: the entries
\* before that one are gone, that one and those after it are left.  The order
\* of os.scandir is the file system's, not one the program chooses, so that
\* any of the entries can be among those removed before the failing one:
\*   - the removal fails at a file of the directory or at the directory
\*     itself, after the img subdirectory: any files R are left, and img is
\*     gone;
\*   - it fails at a file of the directory before it comes to img, or inside
\*     img, at one of its files or at the subdirectory itself: any files R
\*     are left, and img with any files I of it.
Leftovers(t, R, sub, I) ==
    [ there |-> TRUE, root |-> Restrict(t.root, R), imgdir |-> sub,
      img |-> IF sub THEN Restrict(t.img, I) ELSE EmptyDir ]

\* os.path.exists(os.path.join(dir, name))
exists(dir, name) == name \in DOMAIN dir

\* convert_from_path(pdf_path): the images of the n pages of the PDF whose
\* content is pdf
convert_from_path(pdf, n) == [i \in 1 .. n |-> [doc |-> pdf.doc, page |-> i]]

\* a loop that saves every page, whether its file is there or not
SavePages_overwrite(img_dir, pages, base_name) ==
    [ f \in DOMAIN img_dir \cup { fname(base_name, i) : i \in 1 .. Len(pages) } |->
        IF \E i \in 1 .. Len(pages) : fname(base_name, i) = f
        THEN pages[(CHOOSE i \in 1 .. Len(pages) : fname(base_name, i) = f)]
        ELSE img_dir[f] ]

\* the image directory after the loop of main.py:195-201 over pages: an image
\* is saved under its name unless a file of that name is there already
SavePages(img_dir, pages, base_name) ==
    [ f \in DOMAIN img_dir \cup { fname(base_name, i) : i \in 1 .. Len(pages) } |->
        IF exists(img_dir, f) THEN img_dir[f]
        ELSE pages[(CHOOSE i \in 1 .. Len(pages) : fname(base_name, i) = f)] ]

\* the files img.save writes in that loop (main.py:199-200)
Saved(img_dir, pages, base_name) ==
    { fname(base_name, i) : i \in { k \in 1 .. Len(pages) : ~exists(img_dir, fname(base_name, k)) } }

\* image_paths (main.py:194-202): one name per page, in page order
ImagePaths(pages, base_name) == [i \in 1 .. Len(pages) |-> fname(base_name, i)]

\* the objects json.loads gives for the final report: the key resumen_clinico
\* filled, left empty as in the prompt's template, or missing
Reports == { [resumen_clinico |-> "R"], [resumen_clinico |-> ""], [otros |-> "x"] }

\* datetime.now().isoformat(): the instant itself is not modelled
Now == "t"

\* main.py:55
MIN_CHARS_TEXT == 150

\* A text is a sequence of blocks [c |-> character, n |-> repetitions], n >= 1:
\* <<[c |-> "a", n |-> 2], [c |-> "7", n |-> 1]>> is "aa7".  The characters
\* are one of each kind: an ASCII letter, an accented letter the pattern of
\* main.py:181 lists, an accented Latin letter it does not list, a digit, a
\* symbol and a blank.
Alphabet == {"a", "e_acute", "u_diaeresis", "7", "-", " "}

\* the class [A-Za-zÁÉÍÓÚáéíóúÑñ] of the pattern (main.py:181)
ReClass == {"a", "e_acute"}

RECURSIVE len(_)
\* len(text)
len(text) == IF text = <<>> THEN 0 ELSE Head(text).n + len(Tail(text))

RECURSIVE RunFrom(_, _)
\* how many characters of the class follow one another from block k on
RunFrom(text, k) ==
    IF k > Len(text) THEN 0
    ELSE IF text[k].c \notin ReClass THEN 0
    ELSE text[k].n + RunFrom(text, k + 1)

\* re.search(r"[A-Za-zÁÉÍÓÚáéíóúÑñ]{3,}", text) finds a match
re_search(text) == \E k \in 1 .. Len(text) : RunFrom(text, k) >= 3

\* what extract_text_pdfplumber gives in the jobs: nothing for a scanned PDF,
\* 600 letters for a PDF with a text layer
Texts == { <<>>, <<[c |-> "a", n |-> 600]>> }

\* main.py:174-181
pdf_has_meaningful_text(pdf_text) ==
    IF pdf_text = <<>> THEN FALSE
    ELSE IF len(pdf_text) < MIN_CHARS_TEXT THEN FALSE
    ELSE re_search(pdf_text)

\* the object json.loads gives for the extraction from the text of document
\* f (page 0) or from the image of page `page` of document f: what the model
\* answers is a function of what it was sent
GptJson(f, page) == [fuente |-> f, pagina |-> page]

\* ------------------------------------------------------------------- state
VARIABLES
    jobs,       \* main.py:72  jobs: Dict[str, dict]
    task,       \* per job id: the frame of its procesar_drive_job call
    scheduled,  \* per job id: how many times add_task was called for it
    drive,      \* the Drive: folders created and files uploaded
    calls,      \* per job id: the external calls issued, in order, with outcome
    http,       \* the response of the step just taken, if it was an endpoint call
    world,      \* which environment the behaviour runs in (OneJob, TwoJobs, ...):
                \* the ids uuid4 gives and the outcomes of the external calls
    unit        \* the call under way of a function run on its own, outside any
                \* job: its name, arguments, locals and, once returned, result

vars == <<jobs, task, scheduled, drive, calls, http, world, unit>>

\* ----------------------------------------------------------------- helpers
\* d[k] = v on a Python dict
Put(d, k, v) == [x \in DOMAIN d \cup {k} |-> IF x = k THEN v ELSE d[x]]

\* d.get(k, default)
Get(d, k, default) == IF k \in DOMAIN d THEN d[k] ELSE default

\* no response: the step just taken was not an endpoint call
NoResp == [op |-> "none"]

\* no function is being run on its own
NoUnit == [fn |-> "none"]

\* the frame of a task that was never scheduled.  Besides the locals of
\* procesar_drive_job and process_single_pdf it holds the temporary directory
\* (tmpdir: whether it is there, its own files and those of its img
\* subdirectory) and, for the record, how many pages convert_from_path gave
\* for each document rasterized (rasterized, by position in the listing),
\* where the first exception was raised (raised_at), its str() while it is
\* the one on its way to the handler (stage_exc: "" once the exception of a
\* failed removal has taken its place), the str() of the exception on its way
\* to the handler (exc), whether removing the workspace failed
\* (cleanup_failed) and the str() of the exception of that (cleanup_exc)
NoFrame ==
    [ pc |-> "none", folder_id |-> "", pdfs |-> <<>>, out_folder_id |-> <<>>,
      i |-> 0, idx |-> 0, paginas |-> 0, pages_json |-> <<>>, image_paths |-> <<>>,
      tmpdir |-> NoDir, rasterized |-> <<>>,
      extracted_text |-> <<>>,
      doc_results |-> <<>>, final_report |-> <<>>, ups |-> <<>>,
      exc |-> "", stage_exc |-> "", raised_at |-> "", cleanup_failed |-> FALSE,
      cleanup_exc |-> "" ]

\* one request, every outcome of every call, the removal of the temporary
\* directory among them, over folders of at most two PDFs of at most two
\* pages; the client asks for the identifier the request is given, before the
\* request and after it
OneJob ==
    [ uuids |-> {"j1"}, asks |-> {"j1"}, folders |-> Folders,
      listings |-> ListingsUpTo(2),
      msgs |-> Msgs, cleanup |-> CleanupMsgs, texts |-> Texts, pages |-> 0 .. 2,
      reports |-> Reports ]

\* one request over the longest folders and the longest PDFs, every outcome
\* of every call but for the temporary directory, which is made and removed
\* without fail
LongJob ==
    [ uuids |-> {"j1"}, asks |-> {"j1"}, folders |-> Folders, listings |-> Listings,
      msgs |-> Msgs, cleanup |-> {}, texts |-> Texts, pages |-> PageCounts,
      reports |-> Reports ]

\* two requests whose tasks interleave, over folders of at most one PDF and
\* a temporary directory that is made and removed without fail; the client
\* also asks for an identifier never issued
TwoJobs ==
    [ uuids |-> JobIds, asks |-> AskIds, folders |-> Folders,
      listings |-> {<<>>, <<Entry(1)>>},
      msgs |-> {"boom"}, cleanup |-> {}, texts |-> Texts, pages |-> {1},
      reports |-> {[resumen_clinico |-> "R"]} ]

\* one request over a folder whose files may share a name or a base name
SameNames ==
    [ uuids |-> {"j1"}, asks |-> {"j1"}, folders |-> Folders, listings |-> NamedListings,
      msgs |-> {"boom"}, cleanup |-> {"rmtree"}, texts |-> Texts,
      pages |-> PageCounts, reports |-> {[resumen_clinico |-> "R"]} ]

\* one request, every call returning or raising, the removal of the
\* temporary directory among them, over folders of at most two PDFs of at
\* most two pages: what the exception says and what the report holds have no
\* part in whether the task goes on
Scheduled ==
    [ uuids |-> {"j1"}, asks |-> {"j1"}, folders |-> Folders,
      listings |-> ListingsUpTo(2),
      msgs |-> {"boom"}, cleanup |-> {"rmtree"}, texts |-> Texts,
      pages |-> 0 .. 2, reports |-> {[resumen_clinico |-> "R"]} ]

\* the same over the longest folders and the longest PDFs, where the
\* temporary directory is made and removed without fail
ScheduledLong ==
    [ uuids |-> {"j1"}, asks |-> {"j1"}, folders |-> Folders, listings |-> Listings,
      msgs |-> {"boom"}, cleanup |-> {}, texts |-> Texts,
      pages |-> PageCounts, reports |-> {[resumen_clinico |-> "R"]} ]

\* the environment of the behaviour
World ==
    IF world = "OneJob" THEN OneJob
    ELSE IF world = "LongJob" THEN LongJob
    ELSE IF world = "TwoJobs" THEN TwoJobs
    ELSE IF world = "Scheduled" THEN Scheduled
    ELSE IF world = "ScheduledLong" THEN ScheduledLong
    ELSE SameNames

\* the state after the module is loaded (main.py:72), in environment w
Loaded(w) ==
    /\ world = w
    /\ jobs = <<>>
    /\ task = [j \in World.uuids |-> NoFrame]
    /\ scheduled = [j \in World.uuids |-> 0]
    /\ drive = [folders |-> {}, files |-> {}]
    /\ calls = [j \in World.uuids |-> <<>>]
    /\ http = NoResp
    /\ unit = NoUnit

\* one request: in the environment where the removal of the temporary
\* directory can fail, or in the one of the longest folders
Init == Loaded("OneJob") \/ Loaded("LongJob")

InitConc == Loaded("TwoJobs")

InitNames == Loaded("SameNames")

\* one request whose task is scheduled, in either of its environments
InitFair == Loaded("Scheduled") \/ Loaded("ScheduledLong")

\* ------------------------------------------------------------- endpoints
\* POST /procesar (main.py:687-697)
iniciar_proceso(job_id, folder_id) ==
    /\ job_id \in World.uuids /\ folder_id \in World.folders
    /\ job_id \notin DOMAIN jobs
    /\ jobs' = Put(jobs, job_id, [status |-> "en_cola", folder_id |-> folder_id])
    /\ scheduled' = [scheduled EXCEPT ![job_id] = @ + 1]
    /\ task' = [task EXCEPT ![job_id] = [NoFrame EXCEPT !.pc = "start", !.folder_id = folder_id]]
    /\ http' = [op |-> "procesar", body |-> [status |-> "en_proceso", job_id |-> job_id]]
    /\ UNCHANGED <<drive, calls, world, unit>>

\* GET /estado that files a record for an identifier it does not know
consultar_estado_setdefault(job_id) ==
    /\ jobs' = IF job_id \in DOMAIN jobs THEN jobs ELSE Put(jobs, job_id, [error |-> "Job no encontrado"])
    /\ http' = [op |-> "estado", job_id |-> job_id, body |-> jobs'[job_id]]
    /\ UNCHANGED <<task, scheduled, drive, calls, world, unit>>

\* GET /estado/{job_id} (main.py:700-704)
consultar_estado(job_id) ==
    /\ http' = [op |-> "estado", job_id |-> job_id,
                body |-> IF job_id \notin DOMAIN jobs
                         THEN [error |-> "Job no encontrado"]
                         ELSE jobs[job_id]]
    /\ UNCHANGED <<jobs, task, scheduled, drive, calls, world, unit>>

\* ------------------------------------------------------- background job
Fr(j) == task[j]

\* the task of job j is at pc
At(j, pc) == j \in DOMAIN task /\ task[j].pc = pc

\* the external call op of job j, on document doc and page page, and its outcome
Log(j, op, doc, page, ok) ==
    calls' = [calls EXCEPT ![j] = Append(@, [op |-> op, doc |-> doc, page |-> page, ok |-> ok])]

\* a call made before the `with` block raises: straight to the handler (678)
RaiseOut(j, op, m) ==
    /\ Log(j, op, 0, 0, FALSE)
    /\ task' = [task EXCEPT ![j] = [@ EXCEPT !.pc = "except", !.exc = m, !.stage_exc = m, !.raised_at = op]]
    /\ http' = NoResp /\ UNCHANGED <<world, unit, jobs, scheduled, drive>>

\* a stage that is tried again when it raises
RaiseIn_retry(j, op, doc, page, m) ==
    /\ Log(j, op, doc, page, FALSE)
    /\ UNCHANGED task
    /\ http' = NoResp /\ UNCHANGED <<world, unit, jobs, scheduled, drive>>

\* a call made inside the `with` block (603-676) raises: the block is left
\* through TemporaryDirectory.__exit__ before the handler runs
RaiseIn(j, op, doc, page, m) ==
    /\ Log(j, op, doc, page, FALSE)
    /\ task' = [task EXCEPT ![j] = [@ EXCEPT !.pc = "unwind", !.exc = m, !.stage_exc = m, !.raised_at = op]]
    /\ http' = NoResp /\ UNCHANGED <<world, unit, jobs, scheduled, drive>>

\* a call made inside the `with` block raises after it has written to the
\* temporary directory, which it leaves as dir
RaiseInOver(j, op, doc, page, m, dir) ==
    /\ Log(j, op, doc, page, FALSE)
    /\ task' = [task EXCEPT ![j] = [@ EXCEPT !.pc = "unwind", !.exc = m, !.stage_exc = m,
                                              !.raised_at = op, !.tmpdir = dir]]
    /\ http' = NoResp /\ UNCHANGED <<world, unit, jobs, scheduled, drive>>

\* a loop that is left after its first document
EnterLoop_break(j, fr, i) ==
    IF i = 1 /\ i <= Len(fr.pdfs)
    THEN /\ task' = [task EXCEPT ![j] = [fr EXCEPT !.pc = "download", !.i = i]]
         /\ jobs' = [jobs EXCEPT ![j] =
                Put(@, "status_detalle", <<"Descargando", i, Len(fr.pdfs), fr.pdfs[i].name>>)]
    ELSE /\ task' = [task EXCEPT ![j] = [fr EXCEPT !.pc = "informe", !.i = i]]
         /\ jobs' = [jobs EXCEPT ![j] =
                Put(@, "status_detalle", <<"Generando informe final (GPT)">>)]

\* the head of the for loop (608-614) for document i, or, past the last
\* document, lines 627-631
EnterLoop(j, fr, i) ==
    IF i <= Len(fr.pdfs)
    THEN /\ task' = [task EXCEPT ![j] = [fr EXCEPT !.pc = "download", !.i = i]]
         /\ jobs' = [jobs EXCEPT ![j] =
                Put(@, "status_detalle", <<"Descargando", i, Len(fr.pdfs), fr.pdfs[i].name>>)]
    ELSE /\ task' = [task EXCEPT ![j] = [fr EXCEPT !.pc = "informe", !.i = i]]
         /\ jobs' = [jobs EXCEPT ![j] =
                Put(@, "status_detalle", <<"Generando informe final (GPT)">>)]

\* a start that marks every queued job, not only its own
start_all(j) ==
    /\ At(j, "start")
    /\ jobs' = [k \in DOMAIN jobs |->
                  IF jobs[k].status = "en_cola"
                  THEN Put(jobs[k], "status", "procesando")
                  ELSE jobs[k]]
    /\ task' = [task EXCEPT ![j].pc = "guardar_started_at"]
    /\ http' = NoResp /\ UNCHANGED <<world, unit, scheduled, drive, calls>>

\* main.py:582
start(j) ==
    /\ At(j, "start")
    /\ jobs' = [jobs EXCEPT ![j] = Put(@, "status", "procesando")]
    /\ task' = [task EXCEPT ![j].pc = "guardar_started_at"]
    /\ http' = NoResp /\ UNCHANGED <<world, unit, scheduled, drive, calls>>

\* main.py:583
guardar_started_at(j) ==
    /\ At(j, "guardar_started_at")
    /\ jobs' = [jobs EXCEPT ![j] = Put(@, "started_at", Now)]
    /\ task' = [task EXCEPT ![j].pc = "conectar"]
    /\ http' = NoResp /\ UNCHANGED <<world, unit, scheduled, drive, calls>>

\* main.py:587
conectar_drive(j) ==
    /\ At(j, "conectar")
    /\ \/ /\ Log(j, "conectar", 0, 0, TRUE)
          /\ task' = [task EXCEPT ![j].pc = "listar"]
          /\ http' = NoResp /\ UNCHANGED <<world, unit, jobs, scheduled, drive>>
       \/ \E m \in World.msgs : RaiseOut(j, "conectar", m)

\* main.py:590, files().list(...).execute()
drive_list_pdfs(j) ==
    /\ At(j, "listar")
    /\ \/ \E pdfs \in World.listings :
            /\ Log(j, "listar", 0, 0, TRUE)
            /\ task' = [task EXCEPT ![j] =
                   [@ EXCEPT !.pc = "guardar_documentos_encontrados", !.pdfs = pdfs]]
            /\ http' = NoResp /\ UNCHANGED <<world, unit, jobs, scheduled, drive>>
       \/ \E m \in World.msgs : RaiseOut(j, "listar", m)

\* main.py:591
guardar_documentos_encontrados(j) ==
    /\ At(j, "guardar_documentos_encontrados")
    /\ jobs' = [jobs EXCEPT ![j] = Put(@, "documentos_encontrados", Len(Fr(j).pdfs))]
    /\ task' = [task EXCEPT ![j].pc = "guardar_archivos"]
    /\ http' = NoResp /\ UNCHANGED <<world, unit, scheduled, drive, calls>>

\* main.py:592-595
guardar_archivos(j) ==
    /\ At(j, "guardar_archivos")
    /\ jobs' = [jobs EXCEPT ![j] =
           Put(@, "archivos", [k \in 1 .. Len(Fr(j).pdfs) |-> Fr(j).pdfs[k].name])]
    /\ task' = [task EXCEPT ![j].pc = "crear"]
    /\ http' = NoResp /\ UNCHANGED <<world, unit, scheduled, drive, calls>>

\* the id Drive gives the object job j creates by its n-th call: no two alike
DriveId(j, n) == <<j, n>>

\* out_folder_name (main.py:594-595): the stamp itself is not modelled
out_folder_name == <<"AUDITORIA", Now>>

\* a job that takes the folder of that name when its parent already has one
drive_create_subfolder_reuse(j) ==
    /\ At(j, "crear")
    /\ \/ LET old == { f \in drive.folders :
                         f.parent = Fr(j).folder_id /\ f.name = out_folder_name }
              id == IF old = {} THEN DriveId(j, Len(calls[j]) + 1)
                    ELSE (CHOOSE f \in old : TRUE).id
          IN /\ Log(j, "crear", 0, 0, TRUE)
             /\ drive' = [drive EXCEPT !.folders =
                    @ \cup {[id |-> id, parent |-> Fr(j).folder_id, name |-> out_folder_name]}]
             /\ task' = [task EXCEPT ![j] =
                    [@ EXCEPT !.pc = "guardar_output_folder_id", !.out_folder_id = id]]
             /\ http' = NoResp /\ UNCHANGED <<world, unit, jobs, scheduled>>
       \/ \E m \in World.msgs : RaiseOut(j, "crear", m)

\* main.py:596-598 and 104-111, files().create(...).execute(): the folder is
\* on the Drive when the call returns
drive_create_subfolder(j) ==
    /\ At(j, "crear")
    /\ \/ LET id == DriveId(j, Len(calls[j]) + 1)
          IN /\ Log(j, "crear", 0, 0, TRUE)
             /\ drive' = [drive EXCEPT !.folders =
                    @ \cup {[id |-> id, parent |-> Fr(j).folder_id, name |-> out_folder_name]}]
             /\ task' = [task EXCEPT ![j] =
                    [@ EXCEPT !.pc = "guardar_output_folder_id", !.out_folder_id = id]]
             /\ http' = NoResp /\ UNCHANGED <<world, unit, jobs, scheduled>>
       \/ \E m \in World.msgs : RaiseOut(j, "crear", m)

\* main.py:599
guardar_output_folder_id(j) ==
    /\ At(j, "guardar_output_folder_id")
    /\ jobs' = [jobs EXCEPT ![j] = Put(@, "output_folder_id", Fr(j).out_folder_id)]
    /\ task' = [task EXCEPT ![j].pc = "guardar_output_folder_name"]
    /\ http' = NoResp /\ UNCHANGED <<world, unit, scheduled, drive, calls>>

\* main.py:600
guardar_output_folder_name(j) ==
    /\ At(j, "guardar_output_folder_name")
    /\ jobs' = [jobs EXCEPT ![j] = Put(@, "output_folder_name", out_folder_name)]
    /\ task' = [task EXCEPT ![j].pc = "tmpdir"]
    /\ http' = NoResp /\ UNCHANGED <<world, unit, scheduled, drive, calls>>

\* main.py:603, tempfile.TemporaryDirectory().__enter__: the directory is made
TemporaryDirectory(j) ==
    /\ At(j, "tmpdir")
    /\ \/ /\ Log(j, "tmpdir", 0, 0, TRUE)
          /\ task' = [task EXCEPT ![j] = [@ EXCEPT !.pc = "client", !.tmpdir.there = TRUE]]
          /\ http' = NoResp /\ UNCHANGED <<world, unit, jobs, scheduled, drive>>
       \/ \E m \in World.cleanup : RaiseOut(j, "tmpdir", m)

\* main.py:604-614
get_openai_client(j) ==
    /\ At(j, "client")
    /\ \/ /\ Log(j, "client", 0, 0, TRUE)
          /\ EnterLoop(j, Fr(j), 1)
          /\ http' = NoResp /\ UNCHANGED <<world, unit, scheduled, drive>>
       \/ \E m \in World.msgs : RaiseIn(j, "client", 0, 0, m)

\* the document the loop is at
Doc(j) == Fr(j).pdfs[Fr(j).i]

\* main.py:614-617 and 114-121: the file is written at
\* os.path.join(tmpdir, pdf_name), over the file of that name if there is one
\* (io.FileIO(dest_path, "wb"), line 116).  The call raises before that line
\* (get_media, the open itself), and the directory is as it was, or after it
\* (next_chunk, line 120), and the file is left unfinished.
drive_download_file_to_path(j) ==
    /\ At(j, "download")
    /\ \/ /\ Log(j, "download", Doc(j).id, 0, TRUE)
          /\ task' = [task EXCEPT ![j] =
                 [@ EXCEPT !.pc = "extract_text",
                           !.tmpdir.root = Put(@, Doc(j).name, [doc |-> Doc(j).id])]]
          /\ jobs' = [jobs EXCEPT ![j] =
                 Put(@, "status_detalle",
                     <<"Procesando", Fr(j).i, Len(Fr(j).pdfs), Doc(j).name>>)]
          /\ http' = NoResp /\ UNCHANGED <<world, unit, scheduled, drive>>
       \/ \E m \in World.msgs : RaiseIn(j, "download", Doc(j).id, 0, m)
       \/ \E m \in World.msgs :
            RaiseInOver(j, "download", Doc(j).id, 0, m,
                        [Fr(j).tmpdir EXCEPT !.root = Put(@, Doc(j).name, Unfinished(Doc(j).id))])

\* a pipeline that sends every document down the image path
extract_text_pdfplumber_vision_only(j) ==
    /\ At(j, "extract_text")
    /\ \/ \E t \in World.texts :
            /\ Log(j, "extract_text", Doc(j).id, 0, TRUE)
            /\ task' = [task EXCEPT ![j] =
                   [@ EXCEPT !.extracted_text = t, !.pc = "pdf_to_images"]]
            /\ http' = NoResp /\ UNCHANGED <<world, unit, jobs, scheduled, drive>>
       \/ \E m \in World.msgs : RaiseIn(j, "extract_text", Doc(j).id, 0, m)

\* main.py:546-549
extract_text_pdfplumber(j) ==
    /\ At(j, "extract_text")
    /\ \/ \E t \in World.texts :
            /\ Log(j, "extract_text", Doc(j).id, 0, TRUE)
            /\ task' = [task EXCEPT ![j] =
                   [@ EXCEPT !.extracted_text = t,
                             !.pc = IF pdf_has_meaningful_text(t)
                                    THEN "gpt_text" ELSE "pdf_to_images"]]
            /\ http' = NoResp /\ UNCHANGED <<world, unit, jobs, scheduled, drive>>
       \/ \E m \in World.msgs : RaiseIn(j, "extract_text", Doc(j).id, 0, m)

\* main.py:550-556, then 625 and the loop head
gpt_text_extract_json(j) ==
    /\ At(j, "gpt_text")
    /\ \/ LET result == [archivo |-> Doc(j).name,
                         tipo_procesamiento |-> "texto_digital",
                         texto_extraido_chars |-> len(Fr(j).extracted_text),
                         resultado_json |-> GptJson(Doc(j).id, 0)]
          IN /\ Log(j, "gpt_text", Doc(j).id, 0, TRUE)
             /\ EnterLoop(j, [Fr(j) EXCEPT !.doc_results = Append(@, result)], Fr(j).i + 1)
             /\ http' = NoResp /\ UNCHANGED <<world, unit, scheduled, drive>>
       \/ \E m \in World.msgs : RaiseIn(j, "gpt_text", Doc(j).id, 0, m)

\* main.py:559-565 and 187-202: the PDF at local_pdf_path has n pages.  With
\* no page the loop over the pages (564) is not entered and 570-575, 625 and
\* the loop head follow.  The call raises in os.makedirs (188), and the
\* directory is as it was, or in convert_from_path (191), with the img
\* subdirectory made, or in the img.save of page k (199), with the images of
\* the pages before it saved.
pdf_to_images(j) ==
    /\ At(j, "pdf_to_images")
    /\ LET base_name == splitext(Doc(j).name)[1]
           pdf == Fr(j).tmpdir.root[Doc(j).name]
       IN \/ \E n \in World.pages :
               LET pages == convert_from_path(pdf, n)
                   image_paths == ImagePaths(pages, base_name)
                   fr == [Fr(j) EXCEPT !.tmpdir.imgdir = TRUE,
                                       !.tmpdir.img = SavePages(@, pages, base_name),
                                       !.rasterized = Put(@, Fr(j).i, n)]
                   result == [archivo |-> Doc(j).name,
                              tipo_procesamiento |-> "vision_ocr",
                              paginas |-> Len(image_paths),
                              resultado_paginas |-> <<>>]
               IN /\ Log(j, "pdf_to_images", Doc(j).id, 0, TRUE)
                  /\ IF image_paths # <<>>
                     THEN /\ task' = [task EXCEPT ![j] =
                                 [fr EXCEPT !.pc = "sleep", !.idx = 1, !.pages_json = <<>>,
                                            !.image_paths = image_paths,
                                            !.paginas = Len(image_paths)]]
                          /\ UNCHANGED jobs
                     ELSE EnterLoop(j, [fr EXCEPT !.doc_results = Append(@, result)],
                                    Fr(j).i + 1)
                  /\ http' = NoResp /\ UNCHANGED <<world, unit, scheduled, drive>>
          \/ \E m \in World.msgs : RaiseIn(j, "pdf_to_images", Doc(j).id, 0, m)
          \/ \E m \in World.msgs :
               RaiseInOver(j, "pdf_to_images", Doc(j).id, 0, m,
                           [Fr(j).tmpdir EXCEPT !.imgdir = TRUE])
          \/ \E m \in World.msgs, n \in World.pages, k \in 1 .. MaxPages :
               /\ k <= n /\ ~exists(Fr(j).tmpdir.img, fname(base_name, k))
               /\ RaiseInOver(j, "pdf_to_images", Doc(j).id, 0, m,
                      [Fr(j).tmpdir EXCEPT !.imgdir = TRUE, !.img =
                          SavePages(@, SubSeq(convert_from_path(pdf, n), 1, k - 1), base_name)])

\* a loop over the pages that does not pause
time_sleep_skipped(j) ==
    /\ At(j, "sleep")
    /\ task' = [task EXCEPT ![j].pc = "vision"]
    /\ http' = NoResp /\ UNCHANGED <<world, unit, jobs, scheduled, drive, calls>>

\* main.py:566, the pause before each call of the image extraction
time_sleep(j) ==
    /\ At(j, "sleep")
    /\ Log(j, "sleep", Doc(j).id, Fr(j).idx, TRUE)
    /\ task' = [task EXCEPT ![j].pc = "vision"]
    /\ http' = NoResp /\ UNCHANGED <<world, unit, jobs, scheduled, drive>>

\* main.py:567-575, the rest of one turn of the loop over the pages: the image
\* at img_path is sent; then, past the last page, 570-575, 625 and the loop head
gpt_vision_extract_json(j) ==
    /\ At(j, "vision")
    /\ \/ LET img_path == Fr(j).image_paths[Fr(j).idx]
              sent == Fr(j).tmpdir.img[img_path]
              page == [pagina |-> Fr(j).idx,
                       imagen |-> img_path,
                       resultado_json |-> GptJson(sent.doc, sent.page)]
              pages == Append(Fr(j).pages_json, page)
              result == [archivo |-> Doc(j).name,
                         tipo_procesamiento |-> "vision_ocr",
                         paginas |-> Fr(j).paginas,
                         resultado_paginas |-> pages]
          IN /\ Log(j, "vision", Doc(j).id, Fr(j).idx, TRUE)
             /\ IF Fr(j).idx < Fr(j).paginas
                THEN /\ task' = [task EXCEPT ![j] =
                            [@ EXCEPT !.pc = "sleep", !.idx = @ + 1, !.pages_json = pages]]
                     /\ UNCHANGED jobs
                ELSE EnterLoop(j, [Fr(j) EXCEPT !.doc_results = Append(@, result),
                                               !.pages_json = <<>>, !.idx = 0, !.paginas = 0,
                                               !.image_paths = <<>>],
                               Fr(j).i + 1)
             /\ http' = NoResp /\ UNCHANGED <<world, unit, scheduled, drive>>
       \/ \E m \in World.msgs : RaiseIn(j, "vision", Doc(j).id, Fr(j).idx, m)

\* main.py:632-643
gpt_generate_final_report(j) ==
    /\ At(j, "informe")
    /\ \/ \E rep \in World.reports :
            /\ Log(j, "informe", 0, 0, TRUE)
            /\ task' = [task EXCEPT ![j] = [@ EXCEPT !.pc = "html", !.final_report = rep]]
            /\ http' = NoResp /\ UNCHANGED <<world, unit, jobs, scheduled, drive>>
       \/ \E m \in World.msgs : RaiseIn(j, "informe", 0, 0, m)

\* main.py:645-646
build_html_report(j) ==
    /\ At(j, "html")
    /\ \/ /\ Log(j, "html", 0, 0, TRUE)
          /\ task' = [task EXCEPT ![j].pc = "pdf"]
          /\ http' = NoResp /\ UNCHANGED <<world, unit, jobs, scheduled, drive>>
       \/ \E m \in World.msgs : RaiseIn(j, "html", 0, 0, m)

\* main.py:648-658 and 462-523: c.save() writes the report at
\* os.path.join(tmpdir, "informe.pdf"), over the file of that name if there
\* is one.  The call raises before c.save(), and the directory is as it was,
\* or in it, and the file is left unfinished.
build_pdf_report(j) ==
    /\ At(j, "pdf")
    /\ \/ /\ Log(j, "pdf", 0, 0, TRUE)
          /\ task' = [task EXCEPT ![j] =
                 [@ EXCEPT !.pc = "up_json", !.tmpdir.root = Put(@, pdf_path, ReportPdf)]]
          /\ jobs' = [jobs EXCEPT ![j] =
                 Put(@, "status_detalle", <<"Subiendo resultados a Drive">>)]
          /\ http' = NoResp /\ UNCHANGED <<world, unit, scheduled, drive>>
       \/ \E m \in World.msgs : RaiseIn(j, "pdf", 0, 0, m)
       \/ \E m \in World.msgs :
            RaiseInOver(j, "pdf", 0, 0, m,
                        [Fr(j).tmpdir EXCEPT !.root = Put(@, pdf_path, Unfinished("informe"))])

\* files().create(...).execute() of an upload (main.py:131-139, 149-157): the
\* file is on the Drive and the response names it
Upload(j, op, filename, nextpc) ==
    /\ At(j, op)
    /\ \/ LET id == DriveId(j, Len(calls[j]) + 1)
              created == [id |-> id, name |-> filename, webViewLink |-> <<"view", id>>]
          IN /\ Log(j, op, 0, 0, TRUE)
             /\ drive' = [drive EXCEPT !.files =
                    @ \cup {[id |-> id, parent |-> Fr(j).out_folder_id, name |-> filename]}]
             /\ task' = [task EXCEPT ![j] = [@ EXCEPT !.pc = nextpc, !.ups = Append(@, created)]]
             /\ http' = NoResp /\ UNCHANGED <<world, unit, jobs, scheduled>>
       \/ \E m \in World.msgs : RaiseIn(j, op, 0, 0, m)

\* main.py:660
drive_upload_json(j) == Upload(j, "up_json", "resultado_legajo.json", "up_html")

\* main.py:661
drive_upload_html(j) == Upload(j, "up_html", "informe.html", "up_pdf")

\* main.py:662 and 142-157: the file at pdf_path is read back and sent
drive_upload_path(j) ==
    /\ At(j, "up_pdf")
    /\ exists(Fr(j).tmpdir.root, pdf_path) /\ Fr(j).tmpdir.root[pdf_path] = ReportPdf
    /\ Upload(j, "up_pdf", "informe.pdf", "guardar_status")

\* main.py:665
guardar_status(j) ==
    /\ At(j, "guardar_status")
    /\ jobs' = [jobs EXCEPT ![j] = Put(@, "status", "finalizado")]
    /\ task' = [task EXCEPT ![j].pc = "guardar_finished_at"]
    /\ http' = NoResp /\ UNCHANGED <<world, unit, scheduled, drive, calls>>

\* main.py:666
guardar_finished_at(j) ==
    /\ At(j, "guardar_finished_at")
    /\ jobs' = [jobs EXCEPT ![j] = Put(@, "finished_at", Now)]
    /\ task' = [task EXCEPT ![j].pc = "guardar_documentos_procesados"]
    /\ http' = NoResp /\ UNCHANGED <<world, unit, scheduled, drive, calls>>

\* main.py:667
guardar_documentos_procesados(j) ==
    /\ At(j, "guardar_documentos_procesados")
    /\ jobs' = [jobs EXCEPT ![j] = Put(@, "documentos_procesados", Len(Fr(j).doc_results))]
    /\ task' = [task EXCEPT ![j].pc = "guardar_outputs"]
    /\ http' = NoResp /\ UNCHANGED <<world, unit, scheduled, drive, calls>>

\* one entry of "outputs" (main.py:670-672)
Ref(up) == [id |-> up.id, name |-> up.name, url |-> Get(up, "webViewLink", "None")]

\* outputs that leave the HTML report out
guardar_outputs_sin_html(j) ==
    /\ At(j, "guardar_outputs")
    /\ jobs' = [jobs EXCEPT ![j] =
           Put(@, "outputs", [json |-> Ref(Fr(j).ups[1]), pdf |-> Ref(Fr(j).ups[3])])]
    /\ task' = [task EXCEPT ![j].pc = "guardar_resumen"]
    /\ http' = NoResp /\ UNCHANGED <<world, unit, scheduled, drive, calls>>

\* main.py:669-673
guardar_outputs(j) ==
    /\ At(j, "guardar_outputs")
    /\ jobs' = [jobs EXCEPT ![j] =
           Put(@, "outputs", [json |-> Ref(Fr(j).ups[1]),
                              html |-> Ref(Fr(j).ups[2]),
                              pdf  |-> Ref(Fr(j).ups[3])])]
    /\ task' = [task EXCEPT ![j].pc = "guardar_resumen"]
    /\ http' = NoResp /\ UNCHANGED <<world, unit, scheduled, drive, calls>>

\* main.py:676
guardar_resumen(j) ==
    /\ At(j, "guardar_resumen")
    /\ jobs' = [jobs EXCEPT ![j] =
           Put(@, "resumen", Get(Fr(j).final_report, "resumen_clinico", ""))]
    /\ task' = [task EXCEPT ![j].pc = "exit_with"]
    /\ http' = NoResp /\ UNCHANGED <<world, unit, scheduled, drive, calls>>

\* the removal of the directory of job j fails with the message c: the
\* files and the subdirectory it leaves are any of those that were there
RemovalFails(j, c, fr) ==
    \E R \in SUBSET DOMAIN Fr(j).tmpdir.root, sub \in BOOLEAN,
       I \in SUBSET DOMAIN Fr(j).tmpdir.img :
        /\ sub => Fr(j).tmpdir.imgdir
        /\ ~sub => I = {}
        /\ task' = [task EXCEPT ![j] =
               [fr EXCEPT !.pc = "except", !.exc = c, !.cleanup_exc = c,
                          !.cleanup_failed = TRUE,
                          !.tmpdir = Leftovers(Fr(j).tmpdir, R, sub, I)]]

\* the end of the `with` block (after 676): TemporaryDirectory.__exit__ removes
\* the workspace, and an error of the removal is raised inside the try
exit_with(j) ==
    /\ At(j, "exit_with")
    /\ \/ task' = [task EXCEPT ![j] = [@ EXCEPT !.pc = "done", !.tmpdir = NoDir]]
       \/ \E c \in World.cleanup :
            RemovalFails(j, c, [Fr(j) EXCEPT !.raised_at = "cleanup"])
    /\ http' = NoResp /\ UNCHANGED <<world, unit, jobs, scheduled, drive, calls>>

\* the `with` block left by an exception: __exit__ removes the workspace; an
\* error of the removal replaces the exception on its way to the handler
unwind(j) ==
    /\ At(j, "unwind")
    /\ \/ task' = [task EXCEPT ![j] = [@ EXCEPT !.pc = "except", !.tmpdir = NoDir]]
       \/ \E c \in World.cleanup :
            RemovalFails(j, c, [Fr(j) EXCEPT !.stage_exc = ""])
    /\ http' = NoResp /\ UNCHANGED <<world, unit, jobs, scheduled, drive, calls>>

\* a handler that swallows the exception and records nothing
except_handler_silent(j) ==
    /\ At(j, "except")
    /\ task' = [task EXCEPT ![j].pc = "failed"]
    /\ http' = NoResp /\ UNCHANGED <<world, unit, jobs, scheduled, drive, calls>>

\* main.py:678-679: the exception is caught and the status written
except_handler(j) ==
    /\ At(j, "except")
    /\ jobs' = [jobs EXCEPT ![j] = Put(@, "status", "error")]
    /\ task' = [task EXCEPT ![j].pc = "guardar_error"]
    /\ http' = NoResp /\ UNCHANGED <<world, unit, scheduled, drive, calls>>

\* a handler that hides the exception's text from the client
guardar_error_generic(j) ==
    /\ At(j, "guardar_error")
    /\ jobs' = [jobs EXCEPT ![j] = Put(@, "error", "Error interno")]
    /\ task' = [task EXCEPT ![j].pc = "guardar_error_finished_at"]
    /\ http' = NoResp /\ UNCHANGED <<world, unit, scheduled, drive, calls>>

\* main.py:680
guardar_error(j) ==
    /\ At(j, "guardar_error")
    /\ jobs' = [jobs EXCEPT ![j] = Put(@, "error", Fr(j).exc)]
    /\ task' = [task EXCEPT ![j].pc = "guardar_error_finished_at"]
    /\ http' = NoResp /\ UNCHANGED <<world, unit, scheduled, drive, calls>>

\* main.py:681, after which the task returns
guardar_error_finished_at(j) ==
    /\ At(j, "guardar_error_finished_at")
    /\ jobs' = [jobs EXCEPT ![j] = Put(@, "finished_at", Now)]
    /\ task' = [task EXCEPT ![j].pc = "failed"]
    /\ http' = NoResp /\ UNCHANGED <<world, unit, scheduled, drive, calls>>

\* one step of the background task of job j (main.py:581-681)
procesar_drive_job(j) ==
    \/ start(j)
    \/ guardar_started_at(j)
    \/ conectar_drive(j)
    \/ drive_list_pdfs(j)
    \/ guardar_documentos_encontrados(j)
    \/ guardar_archivos(j)
    \/ drive_create_subfolder(j)
    \/ guardar_output_folder_id(j)
    \/ guardar_output_folder_name(j)
    \/ TemporaryDirectory(j)
    \/ get_openai_client(j)
    \/ drive_download_file_to_path(j)
    \/ extract_text_pdfplumber(j)
    \/ gpt_text_extract_json(j)
    \/ pdf_to_images(j)
    \/ time_sleep(j)
    \/ gpt_vision_extract_json(j)
    \/ gpt_generate_final_report(j)
    \/ build_html_report(j)
    \/ build_pdf_report(j)
    \/ drive_upload_json(j)
    \/ drive_upload_html(j)
    \/ drive_upload_path(j)
    \/ guardar_status(j)
    \/ guardar_finished_at(j)
    \/ guardar_documentos_procesados(j)
    \/ guardar_outputs(j)
    \/ guardar_resumen(j)
    \/ exit_with(j)
    \/ unwind(j)
    \/ except_handler(j)
    \/ guardar_error(j)
    \/ guardar_error_finished_at(j)

Next ==
    \/ \E job_id \in JobIds, folder_id \in Folders : iniciar_proceso(job_id, folder_id)
    \/ \E job_id \in AskIds : job_id \in World.asks /\ consultar_estado(job_id)
    \/ \E j \in JobIds : procesar_drive_job(j)

Spec == Init /\ [][Next]_vars

SpecConc == InitConc /\ [][Next]_vars

SpecNames == InitNames /\ [][Next]_vars

\* the background tasks are run: a task that can take a step takes one
FairSpec == InitFair /\ [][Next]_vars /\ \A j \in JobIds : WF_vars(procesar_drive_job(j))

\* ------------------------------------------- functions run on their own
\* how often a character is repeated in a block: up to the length of the run
\* the pattern asks for, and what brings a text to just under, or to, the
\* threshold
Reps == {1, 2, 3, MIN_CHARS_TEXT - 3, MIN_CHARS_TEXT}

Blocks == [c : Alphabet, n : Reps]

RECURSIVE SeqsUpTo(_, _)
\* the sequences of at most n elements of S
SeqsUpTo(S, n) ==
    IF n = 0 THEN {<<>>}
    ELSE {<<>>} \cup { <<x>> \o t : x \in S, t \in SeqsUpTo(S, n - 1) }

\* the texts the heuristic is given
PdfTexts == SeqsUpTo(Blocks, MaxBlocks)

\* pdf_has_meaningful_text(pdf_text) is called and returns
Call_pdf_has_meaningful_text ==
    /\ unit = NoUnit
    /\ \E pdf_text \in PdfTexts :
          unit' = [fn |-> "pdf_has_meaningful_text", pdf_text |-> pdf_text,
                   ret |-> pdf_has_meaningful_text(pdf_text)]
    /\ UNCHANGED <<jobs, task, scheduled, drive, calls, http, world>>

\* the base names pdf_to_images is given
BaseNames == {"a", "b"}

\* the output directory before the first call: any of the files the calls can
\* target may be there already, left by an earlier document (document 0)
PriorDirs ==
    { [f \in D |-> [doc |-> 0, page |-> f.page]] :
        D \in SUBSET { fname(b, i) : b \in BaseNames, i \in 1 .. MaxPages } }

\* pdf_to_images(pdf_path, out_dir, base_name) is called, on a PDF of n pages,
\* and returns (main.py:187-202)
Call_pdf_to_images ==
    /\ unit = NoUnit
    /\ \E doc \in FileIds, n \in 0 .. MaxPages, base_name \in BaseNames, out_dir \in PriorDirs :
          LET pages == convert_from_path([doc |-> doc], n)
          IN unit' = [fn |-> "pdf_to_images", pdf |-> [doc |-> doc], n |-> n,
                      base_name |-> base_name,
                      dirs |-> <<out_dir, SavePages(out_dir, pages, base_name)>>,
                      rets |-> <<ImagePaths(pages, base_name)>>,
                      saved |-> <<Saved(out_dir, pages, base_name)>>]
    /\ UNCHANGED <<jobs, task, scheduled, drive, calls, http, world>>

\* pdf_to_images is called once more with the same PDF, output directory and
\* base name
Call_pdf_to_images_again ==
    /\ unit.fn = "pdf_to_images" /\ Len(unit.rets) = 1
    /\ LET pages == convert_from_path(unit.pdf, unit.n)
           out_dir == unit.dirs[Len(unit.dirs)]
       IN unit' = [unit EXCEPT
                     !.dirs = Append(@, SavePages(out_dir, pages, unit.base_name)),
                     !.rets = Append(@, ImagePaths(pages, unit.base_name)),
                     !.saved = Append(@, Saved(out_dir, pages, unit.base_name))]
    /\ UNCHANGED <<jobs, task, scheduled, drive, calls, http, world>>

\* A string is a sequence of characters.  The characters of the injected
\* values: a plain one and the five that escape_html replaces.  The literal
\* text of the template is kept in chunks, one element each.
HtmlChars == {"a", "<", ">", "&", "\"", "'"}

Strs == SeqsUpTo(HtmlChars, MaxStr)

RECURSIVE replace(_, _, _)
\* s.replace(c, r), c a single character
replace(s, c, r) ==
    IF s = <<>> THEN <<>>
    ELSE (IF Head(s) = c THEN r ELSE <<Head(s)>>) \o replace(Tail(s), c, r)

\* main.py:449-459, for a string (None gives the empty string)
escape_html(s) ==
    replace(replace(replace(replace(replace(s,
        "&", <<"&", "a", "m", "p", ";">>),
        "<", <<"&", "l", "t", ";">>),
        ">", <<"&", "g", "t", ";">>),
        "\"", <<"&", "q", "u", "o", "t", ";">>),
        "'", <<"&", "#", "0", "3", "9", ";">>)

RECURSIVE join(_, _)
\* sep.join(parts)
join(sep, parts) ==
    IF parts = <<>> THEN <<>>
    ELSE IF Len(parts) = 1 THEN parts[1]
    ELSE parts[1] \o sep \o join(sep, Tail(parts))

\* li of build_html_report (main.py:370-373)
li(items) ==
    IF items = <<>> THEN <<"<li>(sin datos)</li>">>
    ELSE join(<<"\n">>,
              [k \in 1 .. Len(items) |-> <<"<li>">> \o escape_html(items[k]) \o <<"</li>">>])

\* json.dumps of a string: the quotes around it, a backslash before a quote
json_str(x) == <<"\"">> \o replace(x, "\"", <<"\\", "\"">>) \o <<"\"">>

\* json.dumps(consolidated, ensure_ascii=False, indent=2) for a consolidated
\* object whose documents carry their archivo; the indentation is left out
json_dumps(consolidated) ==
    <<"{", "\"", "documentos", "\"", ":", "[">>
    \o join(<<",">>,
            [k \in 1 .. Len(consolidated.documentos) |->
                <<"{", "\"", "archivo", "\"", ":">>
                \o json_str(consolidated.documentos[k].archivo) \o <<"}">>])
    \o <<"]", "}">>

\* the f-string of main.py:375-445 around the values put in its ten places
Template(job, folder, resumen, diagnostico, justificacion, cobertura, recomendaciones, red_flags, pendientes, debug) ==
    <<"<!doctype html><html><head>...</head><body><div class=header><h1>...</h1>",
      "<div class=meta>Job: <code>">> \o job
    \o <<"</code> - Folder: <code>">> \o folder
    \o <<"</code> - Generado: ", "now", "</div></div><h2>Resumen clinico</h2>",
         "<div class=box><p>">> \o resumen
    \o <<"</p></div><h2>Diagnostico presuntivo</h2><p>">> \o diagnostico
    \o <<"</p><h2>Justificacion</h2><ul>">> \o justificacion
    \o <<"</ul><h2>Evaluacion de cobertura</h2><ul>">> \o cobertura
    \o <<"</ul><h2>Recomendaciones</h2><ul>">> \o recomendaciones
    \o <<"</ul><h2>Red flags / inconsistencias</h2><ul>">> \o red_flags
    \o <<"</ul><h2>Pendientes de informacion</h2><ul>">> \o pendientes
    \o <<"</ul><details><summary>...</summary><pre>">> \o debug
    \o <<"</pre></details><div class=footer>...</div></body></html>">>

\* main.py:367-446, the string build_html_report returns
build_html_report_str(job_id, folder_id, final_report, consolidated) ==
    Template(job_id, folder_id,
             escape_html(Get(final_report, "resumen_clinico", <<>>)),
             escape_html(Get(final_report, "diagnostico_presuntivo", <<>>)),
             li(Get(final_report, "justificacion", <<>>)),
             li(Get(final_report, "evaluacion_cobertura", <<>>)),
             li(Get(final_report, "recomendaciones", <<>>)),
             li(Get(final_report, "red_flags", <<>>)),
             li(Get(final_report, "pendientes", <<>>)),
             escape_html(json_dumps(consolidated)))

\* the keys of the report that hold a string, and those that hold a list
StrKeys == {"resumen_clinico", "diagnostico_presuntivo"}

ListKeys == {"justificacion", "evaluacion_cobertura", "recomendaciones", "red_flags", "pendientes"}

\* a value without any of the five characters
Plain == <<"a">>

\* the arguments build_html_report is given: the job id is a UUID; the folder
\* id is the string of the request; the report has one key, holding the
\* string v or a list with v in it; the consolidated object has one document
\* whose archivo is v.  One of these places at a time holds v.
HtmlArgs(place, v) ==
    [ job_id |-> Plain,
      folder_id |-> IF place = "folder_id" THEN v ELSE Plain,
      final_report |->
          IF place \in StrKeys THEN [k \in {place} |-> v]
          ELSE IF place \in ListKeys THEN [k \in {place} |-> <<Plain, v>>]
          ELSE <<>>,
      consolidated |->
          [documentos |-> <<[archivo |-> IF place = "consolidated" THEN v ELSE Plain]>>] ]

\* build_html_report(job_id, folder_id, final_report, consolidated) is called
\* and returns
Call_build_html_report ==
    /\ unit = NoUnit
    /\ \E place \in {"folder_id", "consolidated"} \cup StrKeys \cup ListKeys, v \in Strs :
          LET a == HtmlArgs(place, v)
          IN unit' = [fn |-> "build_html_report", place |-> place, v |-> v, args |-> a,
                      ret |-> build_html_report_str(a.job_id, a.folder_id,
                                                    a.final_report, a.consolidated)]
    /\ UNCHANGED <<jobs, task, scheduled, drive, calls, http, world>>

\* round(time.time() - inicio, 2) (procesarPdfs.py:148, 181): the duration
\* itself is not modelled
duracion == "d"

\* procesar_pdf(ruta_pdf, carpeta_img) of the standalone script is called on
\* the PDF of document 1, with carpeta_img as earlier documents left it, and
\* runs up to the loop over the pages (procesarPdfs.py:139-162 and 112-130).
\* A PDF with a text layer is answered at once.  Any other is rasterized into
\* its n pages, each saved in carpeta_img unless a file of its name is there,
\* and with no page the loop is not entered.  Nothing catches what
\* pdf_tiene_texto, extraer_texto_pdf or convert_from_path raises, nor what
\* pagina.save raises for page k, the pages before it being saved by then.
Call_procesar_pdf ==
    /\ unit = NoUnit
    /\ \E nombre_base \in BaseNames, carpeta_img \in PriorDirs :
          LET nombre_pdf == [stem |-> nombre_base, ext |-> ".pdf"]
              u == [fn |-> "procesar_pdf", pc |-> "loop", nombre_pdf |-> nombre_pdf,
                    carpeta_img |-> carpeta_img, rutas_imagenes |-> <<>>, idx |-> 0,
                    resultados_paginas |-> <<>>, outcomes |-> <<>>, ret |-> <<>>,
                    exc |-> ""]
          IN \/ unit' = [u EXCEPT !.pc = "return",
                                  !.ret = [archivo |-> nombre_pdf,
                                           tipo_procesamiento |-> "texto_digital",
                                           duracion_segundos |-> duracion,
                                           contenido |-> <<"texto">>]]
             \/ \E m \in Msgs : unit' = [u EXCEPT !.pc = "raised", !.exc = m]
             \/ \E n \in 0 .. MaxPages :
                  LET paginas == convert_from_path([doc |-> 1], n)
                  IN unit' =
                       IF n = 0
                       THEN [u EXCEPT !.pc = "return",
                                      !.ret = [archivo |-> nombre_pdf,
                                               tipo_procesamiento |-> "vision_ocr",
                                               duracion_segundos |-> duracion,
                                               contenido |-> <<>>]]
                       ELSE [u EXCEPT !.carpeta_img = SavePages(@, paginas, nombre_base),
                                      !.rutas_imagenes = ImagePaths(paginas, nombre_base),
                                      !.idx = 1]
             \/ \E m \in Msgs, n \in 1 .. MaxPages, k \in 1 .. MaxPages :
                  /\ k <= n /\ ~exists(carpeta_img, fname(nombre_base, k))
                  /\ unit' = [u EXCEPT
                                !.pc = "raised", !.exc = m,
                                !.carpeta_img =
                                    SavePages(@, SubSeq(convert_from_path([doc |-> 1], n), 1, k - 1),
                                              nombre_base)]
    /\ UNCHANGED <<jobs, task, scheduled, drive, calls, http, world>>

\* the end of a turn of the loop over the pages: the next page or, past the
\* last one, the return (procesarPdfs.py:181-189)
NextPage(u, outcome, entry) ==
    LET res == Append(u.resultados_paginas, entry)
    IN IF u.idx < Len(u.rutas_imagenes)
       THEN [u EXCEPT !.idx = @ + 1, !.resultados_paginas = res,
                      !.outcomes = Append(@, outcome)]
       ELSE [u EXCEPT !.pc = "return", !.resultados_paginas = res,
                      !.outcomes = Append(@, outcome),
                      !.ret = [archivo |-> u.nombre_pdf, tipo_procesamiento |-> "vision_ocr",
                               duracion_segundos |-> duracion,
                               contenido |-> res]]

\* a loop that gives the document up at the first page that fails
analizar_imagen_con_gpt_abort ==
    /\ unit.fn = "procesar_pdf" /\ unit.pc = "loop"
    /\ LET ruta_img == unit.rutas_imagenes[unit.idx]
           sent == unit.carpeta_img[ruta_img]
       IN \/ unit' = NextPage(unit, "ok",
                         [imagen |-> ruta_img, resultado_gpt |-> GptJson(sent.doc, sent.page)])
          \/ \E m \in Msgs :
                unit' = [unit EXCEPT
                           !.pc = "return",
                           !.outcomes = Append(@, "raised"),
                           !.resultados_paginas = Append(@, [imagen |-> ruta_img, error |-> m]),
                           !.ret = [archivo |-> unit.nombre_pdf,
                                    tipo_procesamiento |-> "vision_ocr",
                                    duracion_segundos |-> duracion,
                                    contenido |-> Append(unit.resultados_paginas,
                                                         [imagen |-> ruta_img, error |-> m])]]
    /\ UNCHANGED <<jobs, task, scheduled, drive, calls, http, world>>

\* one turn of the loop over the pages (procesarPdfs.py:164-179): the file at
\* ruta_img is sent, and the answer, or str(e) of the exception, is filed for
\* the page
analizar_imagen_con_gpt ==
    /\ unit.fn = "procesar_pdf" /\ unit.pc = "loop"
    /\ LET ruta_img == unit.rutas_imagenes[unit.idx]
           sent == unit.carpeta_img[ruta_img]
       IN \/ unit' = NextPage(unit, "ok",
                         [imagen |-> ruta_img, resultado_gpt |-> GptJson(sent.doc, sent.page)])
          \/ \E m \in Msgs :
                unit' = NextPage(unit, "raised", [imagen |-> ruta_img, error |-> m])
    /\ UNCHANGED <<jobs, task, scheduled, drive, calls, http, world>>

NextLib ==
    \/ Call_pdf_has_meaningful_text
    \/ Call_procesar_pdf
    \/ analizar_imagen_con_gpt
    \/ Call_build_html_report
    \/ Call_pdf_to_images
    \/ Call_pdf_to_images_again

SpecLib == Init /\ [][NextLib]_vars

\* ------------------------------------------------------------------ claims
Terminal == {"finalizado", "error"}

\* the stages of the pipeline: the calls procesar_drive_job makes on its way
\* from connecting to the Drive to the last upload
Stages ==
    { "conectar", "listar", "crear", "tmpdir", "client", "download", "extract_text",
      "gpt_text", "pdf_to_images", "vision", "informe", "html", "pdf",
      "up_json", "up_html", "up_pdf" }

\* the task of job j has returned
Ended(j) == Fr(j).pc \in {"done", "failed"}

\* the files job j has put on the Drive
Uploaded(j) == { f \in drive.files : f.id[1] = j }

\* C1: the status of a job only moves en_cola -> procesando -> finalizado or
\* error: a record is created with status en_cola, and a status that is
\* finalizado or error never changes again.
C1_StatusLifecycle ==
    [][\A j \in DOMAIN task :
          /\ (j \notin DOMAIN jobs /\ j \in DOMAIN jobs') => jobs'[j].status = "en_cola"
          /\ j \in DOMAIN jobs =>
                /\ j \in DOMAIN jobs'
                /\ \/ jobs'[j].status = jobs[j].status
                   \/ <<jobs[j].status, jobs'[j].status>> \in
                         { <<"en_cola", "procesando">>, <<"procesando", "finalizado">>,
                           <<"procesando", "error">> }]_vars

\* C2 (as claimed): a job in which a stage raised ends with status error, a
\* non-empty error message equal to the exception's message, and no outputs.
C2_StageErrorNonEmpty ==
    \A j \in DOMAIN jobs :
        (Fr(j).pc = "failed" /\ Fr(j).raised_at \in Stages) =>
            /\ jobs[j].status = "error"
            /\ "error" \in DOMAIN jobs[j]
            /\ jobs[j].error # ""
            /\ jobs[j].error = Fr(j).stage_exc
            /\ "outputs" \notin DOMAIN jobs[j]

\* C2 (amended): a job in which a stage raised ends with status error, no
\* outputs, and an error field that is str() of the exception the handler
\* caught, verbatim: the stage's message, empty when the exception has none,
\* unless removing the workspace failed on the way out of the with block, and
\* then the message of that failure, whichever it is.
C2_StageErrorVerbatim ==
    \A j \in DOMAIN jobs :
        (Fr(j).pc = "failed" /\ Fr(j).raised_at \in Stages) =>
            /\ jobs[j].status = "error"
            /\ "error" \in DOMAIN jobs[j]
            /\ ~Fr(j).cleanup_failed => jobs[j].error = Fr(j).stage_exc
            /\ Fr(j).cleanup_failed => jobs[j].error = Fr(j).cleanup_exc
            /\ "outputs" \notin DOMAIN jobs[j]

\* C2 witness: the second upload raised an exception with no message and the
\* handler has recorded it
C2_Witness ==
    \E j \in DOMAIN jobs :
        /\ Fr(j).pc = "failed" /\ Fr(j).raised_at = "up_html"
        /\ Fr(j).stage_exc = "" /\ ~Fr(j).cleanup_failed
        /\ jobs[j].status = "error" /\ jobs[j].error = ""

\* the record of job j holds exactly the three artifact references, each the
\* file of that name the job put in its output folder
ThreeOutputs(j) ==
    /\ "outputs" \in DOMAIN jobs[j]
    /\ DOMAIN jobs[j].outputs = {"json", "html", "pdf"}
    /\ jobs[j].outputs.json.name = "resultado_legajo.json"
    /\ jobs[j].outputs.html.name = "informe.html"
    /\ jobs[j].outputs.pdf.name = "informe.pdf"
    /\ \A k \in {"json", "html", "pdf"} :
          [id |-> jobs[j].outputs[k].id, parent |-> Fr(j).out_folder_id,
           name |-> jobs[j].outputs[k].name] \in drive.files

C4_NoPartialSuccess ==
    \A j \in DOMAIN jobs :
        Ended(j) =>
            \/ /\ jobs[j].status = "finalizado"
               /\ { f.name : f \in Uploaded(j) } =
                      {"resultado_legajo.json", "informe.html", "informe.pdf"}
            \/ /\ jobs[j].status = "error"
               /\ Uploaded(j) = {}

\* what identifies an external call of a job: the operation, the document
\* and the page
Key(c) == <<c.op, c.doc, c.page>>

\* C5: no stage is retried: within a job no external call is issued twice
\* (the calls of its log are as many as their keys), and a call that raised
\* is the last call the job issues.
C5_NoRetry ==
    \A j \in DOMAIN calls :
        /\ Cardinality({ Key(calls[j][p]) : p \in 1 .. Len(calls[j]) }) = Len(calls[j])
        /\ \A p \in 1 .. Len(calls[j]) : ~calls[j][p].ok => p = Len(calls[j])

\* C5 witness: the extraction of the second page of a document raised, and
\* the job went on to record the error
C5_Witness ==
    \E j \in DOMAIN calls :
        /\ Fr(j).pc = "failed" /\ jobs[j].status = "error"
        /\ Len(calls[j]) > 0
        /\ calls[j][Len(calls[j])].op = "vision"
        /\ calls[j][Len(calls[j])].page = 2
        /\ ~calls[j][Len(calls[j])].ok

\* C6: every job submitted reaches a terminal status, finalizado or error.
C6_Terminates ==
    \A j \in JobIds :
        (j \in DOMAIN jobs) ~> (j \in DOMAIN jobs /\ jobs[j].status \in Terminal)

\* C6 witness: a job over a full listing ran to its end
C6_Witness ==
    \E j \in DOMAIN jobs :
        /\ Ended(j) /\ jobs[j].status \in Terminal
        /\ Len(Fr(j).pdfs) = MaxDocs /\ Len(Fr(j).doc_results) = MaxDocs

\* the position of document d in the listing
Pos(pdfs, d) == CHOOSE k \in 1 .. Len(pdfs) : pdfs[k].id = d

\* the call that comes once document d is done: the download of the next
\* document of the listing or, after the last one, the final report
AfterDoc(pdfs, d, cur) ==
    IF Pos(pdfs, d) < Len(pdfs)
    THEN Key(cur) = <<"download", pdfs[Pos(pdfs, d) + 1].id, 0>>
    ELSE Key(cur) = <<"informe", 0, 0>>

\* call cur may come right after call prev in a job over the listing pdfs
Follows(pdfs, prev, cur) ==
    CASE prev.op = "conectar" -> Key(cur) = <<"listar", 0, 0>>
      [] prev.op = "listar" -> Key(cur) = <<"crear", 0, 0>>
      [] prev.op = "crear" -> Key(cur) = <<"tmpdir", 0, 0>>
      [] prev.op = "tmpdir" -> Key(cur) = <<"client", 0, 0>>
      [] prev.op = "client" ->
            IF Len(pdfs) > 0 THEN Key(cur) = <<"download", pdfs[1].id, 0>>
            ELSE Key(cur) = <<"informe", 0, 0>>
      [] prev.op = "download" -> Key(cur) = <<"extract_text", prev.doc, 0>>
      [] prev.op = "extract_text" ->
            Key(cur) \in {<<"gpt_text", prev.doc, 0>>, <<"pdf_to_images", prev.doc, 0>>}
      [] prev.op = "gpt_text" -> AfterDoc(pdfs, prev.doc, cur)
      [] prev.op = "pdf_to_images" ->
            \/ Key(cur) = <<"sleep", prev.doc, 1>>
            \/ AfterDoc(pdfs, prev.doc, cur)
      [] prev.op = "sleep" -> Key(cur) = <<"vision", prev.doc, prev.page>>
      [] prev.op = "vision" ->
            \/ Key(cur) = <<"sleep", prev.doc, prev.page + 1>>
            \/ AfterDoc(pdfs, prev.doc, cur)
      [] prev.op = "informe" -> Key(cur) = <<"html", 0, 0>>
      [] prev.op = "html" -> Key(cur) = <<"pdf", 0, 0>>
      [] prev.op = "pdf" -> Key(cur) = <<"up_json", 0, 0>>
      [] prev.op = "up_json" -> Key(cur) = <<"up_html", 0, 0>>
      [] prev.op = "up_html" -> Key(cur) = <<"up_pdf", 0, 0>>
      [] OTHER -> FALSE

\* C7: the stages of a job run one after the other, downstream: the documents
\* one at a time in listing order, each downloaded and then extracted before
\* the next is downloaded; the final report after the last document; the
\* renderings after the report; the uploads (JSON, HTML, PDF) after the
\* renderings.  Each call follows a call that returned.
C7_Sequential ==
    \A j \in DOMAIN calls :
        /\ Len(calls[j]) > 0 => Key(calls[j][1]) = <<"conectar", 0, 0>>
        /\ \A p \in 2 .. Len(calls[j]) :
              /\ calls[j][p - 1].ok
              /\ Follows(Fr(j).pdfs, calls[j][p - 1], calls[j][p])

\* C7 witness: a job over two documents, the first read page by page and the
\* second from its text, has made its last upload
C7_Witness ==
    \E j \in DOMAIN calls :
        /\ Len(Fr(j).doc_results) = 2
        /\ Fr(j).doc_results[1].tipo_procesamiento = "vision_ocr"
        /\ Fr(j).doc_results[2].tipo_procesamiento = "texto_digital"
        /\ Len(calls[j]) > 0
        /\ Key(calls[j][Len(calls[j])]) = <<"up_pdf", 0, 0>>
        /\ calls[j][Len(calls[j])].ok

\* C8: a request files one record under a new key and schedules one task for
\* it, and a step of the task of one job leaves the record of every other job
\* as it was, whatever the interleaving.
C8_OwnRecordOnly ==
    [][/\ \A j \in DOMAIN task :
             task'[j] # task[j] =>
                 \A k \in DOMAIN jobs \ {j} : k \in DOMAIN jobs' /\ jobs'[k] = jobs[k]
       /\ DOMAIN jobs' # DOMAIN jobs =>
             \E k \in DOMAIN jobs' \ DOMAIN jobs :
                 /\ DOMAIN jobs' = DOMAIN jobs \cup {k}
                 /\ http'.op = "procesar" /\ http'.body.job_id = k
                 /\ scheduled[k] = 0 /\ scheduled' = [scheduled EXCEPT ![k] = 1]
                 /\ task[k].pc = "none" /\ task'[k].pc = "start"
                 /\ \A i \in DOMAIN task \ {k} : task'[i] = task[i]
       /\ DOMAIN jobs' = DOMAIN jobs => scheduled' = scheduled]_vars

\* C8 witness: two jobs under way at once, one already failed while the
\* other is between its uploads
C8_Witness ==
    \E j, k \in DOMAIN jobs :
        /\ j # k
        /\ Fr(j).pc = "failed" /\ jobs[j].status = "error"
        /\ Fr(k).pc = "up_html" /\ jobs[k].status = "procesando"

\* C9: the status POST /procesar returns is the status stored in the record
\* it has just created (en_cola), the one GET /estado reports before the
\* background task starts.
C9_ResponseStatusIsStored ==
    http.op = "procesar" =>
        /\ http.body.job_id \in DOMAIN jobs
        /\ http.body.status = jobs[http.body.job_id].status
        /\ http.body.status = "en_cola"

\* C10: GET /estado answers an unknown identifier with the error payload and a
\* known one with its current record, and leaves the job store as it was.
C10_EstadoAnswers ==
    [][http'.op = "estado" =>
          /\ jobs' = jobs
          /\ http'.body = IF http'.job_id \in DOMAIN jobs
                          THEN jobs[http'.job_id]
                          ELSE [error |-> "Job no encontrado"]]_vars

\* C10 witness: an unknown identifier was asked for while the store holds a job
C10_Witness ==
    /\ http.op = "estado"
    /\ http.job_id \notin DOMAIN jobs
    /\ http.body = [error |-> "Job no encontrado"]
    /\ DOMAIN jobs # {}

\* the positions, in the call log of job j, of the calls op on document d
CallsAt(j, op, d) ==
    { p \in 1 .. Len(calls[j]) : calls[j][p].op = op /\ calls[j][p].doc = d }

\* job j has read the text of the k-th document of its listing
Extracted(j, k) ==
    \E p \in CallsAt(j, "extract_text", Fr(j).pdfs[k].id) : calls[j][p].ok

\* the document whose text job j read last (extracted_text is that text) and
\* its position in the listing: the loop index, less one once the loop head
\* has moved on to the next document
LastPos(j) ==
    CHOOSE k \in 1 .. Len(Fr(j).pdfs) :
        /\ Extracted(j, k)
        /\ \A k2 \in (k + 1) .. Len(Fr(j).pdfs) : ~Extracted(j, k2)

\* job j has read the text of some document
SomeExtracted(j) == \E k \in 1 .. Len(Fr(j).pdfs) : Extracted(j, k)

\* the last call of job j returned the text of a document
JustExtracted(j) ==
    /\ calls[j][Len(calls[j])].op = "extract_text"
    /\ calls[j][Len(calls[j])].ok

\* C11: when the text extracted from a document is sufficient the text path is
\* taken: the next call is the text extraction, it is the only one for the
\* document, the document is never rasterized nor sent page by page, and its
\* result is tagged texto_digital and holds a single resultado_json.
C11_TextPath ==
    \A j \in DOMAIN jobs :
        (SomeExtracted(j) /\ pdf_has_meaningful_text(Fr(j).extracted_text)) =>
            LET k == LastPos(j)
                d == Fr(j).pdfs[k].id
            IN /\ CallsAt(j, "pdf_to_images", d) = {}
               /\ CallsAt(j, "sleep", d) = {}
               /\ CallsAt(j, "vision", d) = {}
               /\ Cardinality(CallsAt(j, "gpt_text", d)) <= 1
               /\ JustExtracted(j) => Fr(j).pc = "gpt_text"
               /\ Len(Fr(j).doc_results) >= k =>
                     /\ Cardinality(CallsAt(j, "gpt_text", d)) = 1
                     /\ DOMAIN Fr(j).doc_results[k] =
                           {"archivo", "tipo_procesamiento", "texto_extraido_chars",
                            "resultado_json"}
                     /\ Fr(j).doc_results[k].archivo = Fr(j).pdfs[k].name
                     /\ Fr(j).doc_results[k].tipo_procesamiento = "texto_digital"
                     /\ Fr(j).doc_results[k].texto_extraido_chars = len(Fr(j).extracted_text)
                     /\ Fr(j).doc_results[k].resultado_json = GptJson(d, 0)

\* C11 witness: a job over one PDF with 600 characters of text has its result
C11_Witness ==
    \E j \in DOMAIN jobs :
        /\ Len(Fr(j).pdfs) = 1 /\ Len(Fr(j).doc_results) = 1
        /\ len(Fr(j).extracted_text) = 600
        /\ Fr(j).doc_results[1].tipo_procesamiento = "texto_digital"
        /\ Cardinality(CallsAt(j, "gpt_text", Fr(j).pdfs[1].id)) = 1

\* how many pages the k-th document of the listing of job j was rasterized
\* into, none while it has not been
PagesOf(j, k) == Get(Fr(j).rasterized, k, 0)

\* the p-th call, in order, among the positions ps of a call log
RECURSIVE Nth(_, _)
Nth(ps, p) ==
    LET m == CHOOSE x \in ps : \A y \in ps : x <= y
    IN IF p = 1 THEN m ELSE Nth(ps \ {m}, p - 1)

\* C12: when the text extracted from a document is insufficient the image
\* path is taken: no text extraction call is made for the document; it is
\* rasterized, and its n pages are sent one call each, in page order 1..n,
\* each call right after a pause; the result is tagged vision_ocr, has
\* paginas = n and lists the n page results in page order.
C12_ImagePath ==
    \A j \in DOMAIN jobs :
        (SomeExtracted(j) /\ ~pdf_has_meaningful_text(Fr(j).extracted_text)) =>
            LET k == LastPos(j)
                d == Fr(j).pdfs[k].id
                n == PagesOf(j, k)
                vs == CallsAt(j, "vision", d)
            IN /\ CallsAt(j, "gpt_text", d) = {}
               /\ JustExtracted(j) => Fr(j).pc = "pdf_to_images"
               /\ Cardinality(vs) <= n
               /\ \A q \in 1 .. Cardinality(vs) :
                     /\ calls[j][Nth(vs, q)].page = q
                     /\ Key(calls[j][Nth(vs, q) - 1]) = <<"sleep", d, q>>
                     /\ q > 1 => calls[j][Nth(vs, q) - 2] = calls[j][Nth(vs, q - 1)]
               /\ Len(Fr(j).doc_results) >= k =>
                     /\ Cardinality(vs) = n
                     /\ \A q \in vs : calls[j][q].ok
                     /\ DOMAIN Fr(j).doc_results[k] =
                           {"archivo", "tipo_procesamiento", "paginas", "resultado_paginas"}
                     /\ Fr(j).doc_results[k].archivo = Fr(j).pdfs[k].name
                     /\ Fr(j).doc_results[k].tipo_procesamiento = "vision_ocr"
                     /\ Fr(j).doc_results[k].paginas = n
                     /\ Len(Fr(j).doc_results[k].resultado_paginas) = n
                     /\ \A q \in 1 .. n :
                           /\ Fr(j).doc_results[k].resultado_paginas[q].pagina = q
                           /\ Fr(j).doc_results[k].resultado_paginas[q].imagen =
                                 fname(splitext(Fr(j).pdfs[k].name)[1], q)

\* C12 witness: a scanned PDF of MaxPages pages has its result, every page
\* sent
C12_Witness ==
    \E j \in DOMAIN jobs :
        /\ Len(Fr(j).doc_results) >= 1
        /\ Fr(j).doc_results[1].tipo_procesamiento = "vision_ocr"
        /\ Fr(j).doc_results[1].paginas = MaxPages
        /\ Cardinality(CallsAt(j, "vision", Fr(j).pdfs[1].id)) = MaxPages
        /\ Cardinality(CallsAt(j, "sleep", Fr(j).pdfs[1].id)) = MaxPages

\* C18: within a job, every page image sent to the image extraction for a
\* document was rasterized from that document, also when files of the listing
\* share a name or a base name: the answer recorded for page q of the k-th
\* document is the answer to the image of page q of that document.
C18_PagesFromOwnDocument ==
    \A j \in DOMAIN jobs :
        /\ \A k \in 1 .. Len(Fr(j).doc_results) :
              Fr(j).doc_results[k].tipo_procesamiento = "vision_ocr" =>
                  \A q \in 1 .. Len(Fr(j).doc_results[k].resultado_paginas) :
                      Fr(j).doc_results[k].resultado_paginas[q].resultado_json =
                          GptJson(Fr(j).pdfs[k].id, q)
        /\ \A q \in 1 .. Len(Fr(j).pages_json) :
              Fr(j).pages_json[q].resultado_json = GptJson(Doc(j).id, q)

\* the folders job j has created on the Drive
Created(j) == { f \in drive.folders : f.id[1] = j }

\* the folder job j has created is under its source folder and is the one the
\* create call returned; the record names it once line 599 has run; the
\* uploads of job j all went into it, and no other job has uploaded there
OwnSubfolder(j) ==
    /\ \A f \in Created(j) :
          /\ f.parent = jobs[j].folder_id
          /\ f.id = Fr(j).out_folder_id
    /\ "output_folder_id" \in DOMAIN jobs[j] =>
          \E f \in Created(j) : f.id = jobs[j].output_folder_id
    /\ \A u \in Uploaded(j) : \E f \in Created(j) : u.parent = f.id
    /\ \A k \in DOMAIN jobs \ {j} :
          \A u \in Uploaded(k) : \A f \in Created(j) : u.parent # f.id

\* C16 (as claimed): every job creates exactly one output subfolder, under
\* its source folder; all its uploads go there and nowhere else, and no two
\* jobs upload into the same subfolder.
C16_ExactlyOneSubfolder ==
    \A j \in DOMAIN jobs :
        Ended(j) => Cardinality(Created(j)) = 1 /\ OwnSubfolder(j)

\* C16 (amended): a job creates at most one output subfolder: none when it
\* fails before step 3 has created it, one from the moment the create call
\* returns.  The subfolder's parent is the job's source folder, every upload
\* of the job goes into it, and no two jobs upload into the same subfolder.
C16_OwnSubfolder ==
    \A j \in DOMAIN jobs :
        /\ Cardinality(Created(j)) <= 1
        /\ Cardinality(Created(j)) = 1 <=>
              \E p \in CallsAt(j, "crear", 0) : calls[j][p].ok
        /\ OwnSubfolder(j)

\* C16 witness: two jobs over the same source folder have each uploaded into
\* their subfolder
C16_Witness ==
    \E j, k \in DOMAIN jobs :
        /\ j # k /\ jobs[j].folder_id = jobs[k].folder_id
        /\ Uploaded(j) # {} /\ Uploaded(k) # {}
        /\ Cardinality(Created(j)) = 1 /\ Cardinality(Created(k)) = 1

\* C17: in every state of the job store a record whose status is finalizado
\* holds its outputs (the three artifact references), its resumen and its
\* finished_at.
C17_FinalizadoIsComplete ==
    \A j \in DOMAIN jobs :
        jobs[j].status = "finalizado" =>
            /\ "finished_at" \in DOMAIN jobs[j]
            /\ "outputs" \in DOMAIN jobs[j]
            /\ "resumen" \in DOMAIN jobs[j]
            /\ DOMAIN jobs[j].outputs = {"json", "html", "pdf"}

\* the letters: ASCII and accented Latin ones
Letters == {"a", "e_acute", "u_diaeresis"}

RECURSIVE LettersFrom(_, _)
\* how many letters follow one another from block k on
LettersFrom(text, k) ==
    IF k > Len(text) THEN 0
    ELSE IF text[k].c \notin Letters THEN 0
    ELSE text[k].n + LettersFrom(text, k + 1)

\* C13: pdf_has_meaningful_text is true if and only if the text has at least
\* MIN_CHARS_TEXT characters and contains a run of at least three consecutive
\* alphabetic characters, accented Latin letters included.
C13_MeaningfulIff ==
    unit.fn = "pdf_has_meaningful_text" =>
        (unit.ret <=>
            /\ len(unit.pdf_text) >= MIN_CHARS_TEXT
            /\ \E k \in 1 .. Len(unit.pdf_text) : LettersFrom(unit.pdf_text, k) >= 3)

\* C14: pdf_to_images is idempotent: called twice on the same PDF, output
\* directory and base name it returns the same list of image paths, one per
\* page in page order; the second call writes no file and leaves the
\* directory as the first left it; a file that was there before a call is
\* left untouched.
C14_Idempotent ==
    (unit.fn = "pdf_to_images" /\ Len(unit.rets) = 2) =>
        /\ unit.rets[2] = unit.rets[1]
        /\ Len(unit.rets[1]) = unit.n
        /\ \A i \in 1 .. unit.n : unit.rets[1][i] = fname(unit.base_name, i)
        /\ unit.saved[2] = {}
        /\ unit.dirs[3] = unit.dirs[2]
        /\ \A f \in DOMAIN unit.dirs[1] :
              exists(unit.dirs[3], f) /\ unit.dirs[3][f] = unit.dirs[1][f]
        /\ \A i \in 1 .. unit.n : exists(unit.dirs[3], fname(unit.base_name, i))

\* C14 witness: the second call has returned, on a PDF of MaxPages pages of
\* which the first call found one image there and wrote the others
C14_Witness ==
    /\ unit.fn = "pdf_to_images" /\ Len(unit.rets) = 2
    /\ unit.n = MaxPages
    /\ exists(unit.dirs[1], fname(unit.base_name, 1))
    /\ unit.saved[1] = { fname(unit.base_name, i) : i \in 2 .. MaxPages }

\* the entity for one of the five characters, the character itself otherwise
Entity(c) ==
    CASE c = "&" -> <<"&", "a", "m", "p", ";">>
      [] c = "<" -> <<"&", "l", "t", ";">>
      [] c = ">" -> <<"&", "g", "t", ";">>
      [] c = "\"" -> <<"&", "q", "u", "o", "t", ";">>
      [] c = "'" -> <<"&", "#", "0", "3", "9", ";">>
      [] OTHER -> <<c>>

RECURSIVE Escaped(_)
\* the string with each of the five characters replaced by its entity
Escaped(x) == IF x = <<>> THEN <<>> ELSE Entity(Head(x)) \o Escaped(Tail(x))

\* the items of a list, escaped, as list elements
EscapedItems(items) ==
    IF items = <<>> THEN <<"<li>(sin datos)</li>">>
    ELSE join(<<"\n">>,
              [k \in 1 .. Len(items) |-> <<"<li>">> \o Escaped(items[k]) \o <<"</li>">>])

\* C15: build_html_report escapes <, >, &, " and ' in every value it puts in
\* the template: the job id, the folder id, each field of the report, each
\* item of its lists and the embedded consolidated JSON.  What it returns is
\* the template with every value escaped.
C15_EveryValueEscaped ==
    unit.fn = "build_html_report" =>
        unit.ret =
            Template(Escaped(unit.args.job_id), Escaped(unit.args.folder_id),
                     Escaped(Get(unit.args.final_report, "resumen_clinico", <<>>)),
                     Escaped(Get(unit.args.final_report, "diagnostico_presuntivo", <<>>)),
                     EscapedItems(Get(unit.args.final_report, "justificacion", <<>>)),
                     EscapedItems(Get(unit.args.final_report, "evaluacion_cobertura", <<>>)),
                     EscapedItems(Get(unit.args.final_report, "recomendaciones", <<>>)),
                     EscapedItems(Get(unit.args.final_report, "red_flags", <<>>)),
                     EscapedItems(Get(unit.args.final_report, "pendientes", <<>>)),
                     Escaped(json_dumps(unit.args.consolidated)))

\* C19: in procesar_pdf of the standalone script a page whose analysis fails
\* does not end the document: the error is filed as the entry of that page,
\* the pages after it are analysed in order, and the contenido returned has
\* one entry, answer or error, per page, in page order.
C19_PageErrorsRecorded ==
    (unit.fn = "procesar_pdf" /\ unit.rutas_imagenes # <<>>) =>
        /\ unit.pc \in {"loop", "return"}
        /\ Len(unit.outcomes) = Len(unit.resultados_paginas)
        /\ \A q \in 1 .. Len(unit.resultados_paginas) :
              /\ unit.resultados_paginas[q].imagen = unit.rutas_imagenes[q]
              /\ unit.rutas_imagenes[q].page = q
              /\ unit.outcomes[q] = "ok" =>
                    /\ DOMAIN unit.resultados_paginas[q] = {"imagen", "resultado_gpt"}
                    /\ unit.resultados_paginas[q].resultado_gpt =
                          GptJson(unit.carpeta_img[unit.rutas_imagenes[q]].doc,
                                  unit.carpeta_img[unit.rutas_imagenes[q]].page)
              /\ unit.outcomes[q] = "raised" =>
                    /\ DOMAIN unit.resultados_paginas[q] = {"imagen", "error"}
                    /\ unit.resultados_paginas[q].error \in Msgs
        /\ unit.pc = "loop" => unit.idx = Len(unit.resultados_paginas) + 1
        /\ unit.pc = "return" =>
              /\ unit.ret.tipo_procesamiento = "vision_ocr"
              /\ unit.ret.contenido = unit.resultados_paginas
              /\ Len(unit.ret.contenido) = Len(unit.rutas_imagenes)

\* C19 witness: a document of MaxPages pages is returned, its first page
\* filed as an error and its last as an answer
C19_Witness ==
    /\ unit.fn = "procesar_pdf" /\ unit.pc = "return"
    /\ Len(unit.rutas_imagenes) = MaxPages
    /\ Len(unit.ret.contenido) = MaxPages
    /\ "error" \in DOMAIN unit.ret.contenido[1]
    /\ "resultado_gpt" \in DOMAIN unit.ret.contenido[MaxPages]

====
